---- MODULE Spec2Model ----
(***************************************************************************)
(* A model of versuchung's result store: the reference-counted registry of *)
(* sqlite connections (database.py, Database_SQLite), the experiment-aware *)
(* tables on top of it (Table, TableDict), the identity hash and the stage *)
(* order of Experiment.execute (experiment.py).                            *)
(*                                                                         *)
(* Python dicts are functions whose DOMAIN is the set of keys present.     *)
(* An operation of the code is an operator from a world (registry, handle  *)
(* objects, store files) to a record [w, ret, exc]: the world afterwards,  *)
(* the value returned and the exception raised ("none" when it returns).   *)
(***************************************************************************)
EXTENDS Integers, Sequences, FiniteSets, Bags, TLC

VARIABLES
    database_connections, \* Database_SQLite.database_connections: path -> [db, count]
    handles,              \* every sqlite3 connection object created so far, by id
    store,                \* the store files that exist: path -> [tables, committed, mode]
    calls,                \* SpecReg: connect/disconnect calls made so far, per path
    underflow,            \* SpecReg: paths that were disconnected more often than connected
    last,                 \* the outcome of the last operation a caller made
    cls,                  \* SpecIdent: the experiment class: [title, version]
    exps,                 \* SpecIdent: the Experiment objects, by number
    params,               \* the Table and TableDict objects, by owner and name
    dicts,                \* the dict content of each owner's TableDict
    experiments,          \* Spec: the Experiment objects A, B, R: [title, instance]
    run,                  \* Spec: where the script and the running execute() are
    dirs,                 \* Spec: the result directories that exist, with their files
    disk,                 \* SpecMerge: the database files the merge script sees, by path
    merger,               \* SpecMerge: the Database_SQlite_Merger object of the script
    simple,               \* SpecAttr: the experiment class of the attribute test and its object
    threads               \* SpecRace: the runs that use the registry at the same time

regVars == <<database_connections, handles, store>>
callVars == <<calls, underflow, last>>
identVars == <<cls, exps>>
objVars == <<params, dicts>>
runVars == <<experiments, run, dirs>>
mergeVars == <<disk, merger>>
attrVars == <<simple>>
raceVars == <<threads>>
vars == <<database_connections, handles, store, calls, underflow, last, cls, exps,
          params, dicts, experiments, run, dirs, disk, merger, simple,
          threads>>

----------------------------------------------------------------------------
(* Bounds *)

MaxHandles == 2   \* sqlite3.connect is called at most this often
MaxCalls == 2     \* SpecReg: connect calls per path
MaxInputs == 2    \* SpecIdent: input parameters of an experiment
MaxOpens == 3     \* Spec: sqlite3.connect is called at most this often
MaxRuns == 2      \* Spec: calls of execute()
MaxOps == 2       \* Spec: operations of the run bodies and the script on tables

Paths == {"/x.db", "/y.db"}
Ids == {"A-1", "B-1"}

NoException == "none"

----------------------------------------------------------------------------
(* Store files and sqlite3 connection objects *)

\* A fresh database file, as sqlite3.connect creates it when the path is new.
EmptyDb == [tables |-> <<>>, committed |-> <<>>, mode |-> "rw"]

World == [reg |-> database_connections, handles |-> handles, store |-> store,
          params |-> params, dicts |-> dicts]

SetWorld(w) ==
    /\ database_connections' = w.reg
    /\ handles' = w.handles
    /\ store' = w.store
    /\ params' = w.params
    /\ dicts' = w.dicts

Result(w, ret, exc) == [w |-> w, ret |-> ret, exc |-> exc]

\* Statements in sequence: when the call r raised, the exception leaves the
\* function; otherwise the statements K that follow it run on its result.
Bind(r, K(_)) == IF r.exc # NoException THEN r ELSE K(r)

\* try: ... except sqlite3.OperationalError: pass
except_OperationalError(r) ==
    IF r.exc = "OperationalError" THEN Result(r.w, 0, NoException) ELSE r

\* sqlite3.connect(path): a new connection object; the file is created when it
\* is missing and is opened read-only when its write permission is gone.
sqlite3_connect(w, path) ==
    LET h == Len(w.handles) + 1
        st == IF path \in DOMAIN w.store
              THEN w.store
              ELSE [q \in DOMAIN w.store \cup {path} |->
                        IF q = path THEN EmptyDb ELSE w.store[q]]
        obj == [path |-> path, closed |-> FALSE, readonly |-> st[path].mode = "ro"]
    IN  Result([w EXCEPT !.handles = Append(@, obj), !.store = st], h, NoException)

\* connection.commit(): the pending writes become the durable content.
\* On a closed connection sqlite3 raises ProgrammingError.
db_commit(w, h) ==
    LET p == w.handles[h].path IN
    IF w.handles[h].closed
    THEN Result(w, 0, "ProgrammingError")
    ELSE Result([w EXCEPT !.store[p].committed = w.store[p].tables], 0, NoException)

\* connection.close(): writes that were never committed are rolled back.
db_close(w, h) ==
    LET p == w.handles[h].path IN
    IF w.handles[h].closed
    THEN Result(w, 0, NoException)
    ELSE Result([w EXCEPT !.handles[h].closed = TRUE,
                          !.store[p].tables = w.store[p].committed], 0, NoException)

PyStr(s) == [tag |-> "str", txt |-> s]
PyInt(s) == [tag |-> "int", txt |-> s]

\* What a TEXT column keeps of a Python value: sqlite's text affinity turns a
\* number into its decimal text. A Python value is [tag, txt]: str "1" is
\* [tag |-> "str", txt |-> "1"] and int 1 is [tag |-> "int", txt |-> "1"].
TextAffinity(v) == v.txt

\* A TEXT column read back through sqlite3 is a Python (unicode) string.
FromText(s) == [tag |-> "str", txt |-> s]

\* The columns of a stored table, in declared order.
Columns(tbl) == [i \in DOMAIN tbl.fields |-> tbl.fields[i][1]]

\* CREATE TABLE name (fields..., PRIMARY KEY on primary). sqlite3 commits the
\* open transaction before a schema statement; the statement is refused on a
\* connection that is closed, on a table that exists and on a read-only file.
sql_create_table(w, h, name, fields, primary) ==
    LET p == w.handles[h].path IN
    IF w.handles[h].closed THEN Result(w, 0, "ProgrammingError")
    ELSE IF name \in DOMAIN w.store[p].tables THEN Result(w, 0, "OperationalError")
    ELSE LET c == db_commit(w, h) IN
         IF w.handles[h].readonly THEN Result(c.w, 0, "OperationalError")
         ELSE LET tbl == [fields |-> fields, primary |-> primary, rows |-> {}]
                  add(ts) == [n \in DOMAIN ts \cup {name} |->
                                 IF n = name THEN tbl ELSE ts[n]]
              IN  Result([c.w EXCEPT !.store[p].tables = add(@),
                                     !.store[p].committed = add(@)], 0, NoException)

\* INSERT INTO name(columns of row) values(...): row maps column names to
\* Python values. Every table of the model declares a primary key, so a table
\* holds one row per key value and a second row with that key is refused.
sql_insert(w, h, name, row) ==
    LET p == w.handles[h].path IN
    IF w.handles[h].closed THEN Result(w, 0, "ProgrammingError")
    ELSE IF name \notin DOMAIN w.store[p].tables THEN Result(w, 0, "OperationalError")
    ELSE LET tbl == w.store[p].tables[name]
             cols == {tbl.fields[i][1] : i \in DOMAIN tbl.fields}
         IN  IF ~(DOMAIN row \subseteq cols) THEN Result(w, 0, "OperationalError")
             ELSE IF w.handles[h].readonly THEN Result(w, 0, "OperationalError")
             ELSE LET stored == [c \in cols |->
                                    IF c \in DOMAIN row THEN TextAffinity(row[c])
                                                        ELSE "NULL"]
                  IN  IF \E r \in tbl.rows : r[tbl.primary] = stored[tbl.primary]
                      THEN Result(w, 0, "IntegrityError")
                      ELSE Result([w EXCEPT !.store[p].tables[name].rows =
                                                @ \cup {stored}], 0, NoException)

\* DELETE FROM name WHERE experiment = id
sql_delete(w, h, name, id) ==
    LET p == w.handles[h].path IN
    IF w.handles[h].closed THEN Result(w, 0, "ProgrammingError")
    ELSE IF name \notin DOMAIN w.store[p].tables THEN Result(w, 0, "OperationalError")
    ELSE IF w.handles[h].readonly THEN Result(w, 0, "OperationalError")
    ELSE Result([w EXCEPT !.store[p].tables[name].rows =
                              {r \in @ : r["experiment"] # id}], 0, NoException)

----------------------------------------------------------------------------
(* The connection registry: Database_SQLite.__connect / __disconnect *)

\* connect without the lookup: every caller gets a connection of its own.
connect_always_opens(w, path) ==
    LET c == sqlite3_connect(w, path) IN
    Result([c.w EXCEPT !.reg = [q \in DOMAIN c.w.reg \cup {path} |->
                                   IF q = path THEN [db |-> c.ret, count |-> 1]
                                               ELSE c.w.reg[q]]],
           c.ret, NoException)

connect(w, path) ==
    IF path \in DOMAIN w.reg
    THEN Result([w EXCEPT !.reg[path].count = @ + 1], w.reg[path].db, NoException)
    ELSE LET c == sqlite3_connect(w, path) IN
         Result([c.w EXCEPT !.reg = [q \in DOMAIN c.w.reg \cup {path} |->
                                        IF q = path THEN [db |-> c.ret, count |-> 1]
                                                    ELSE c.w.reg[q]]],
                c.ret, NoException)

\* disconnect that passes over a path without an entry.
disconnect_missing_ignored(w, path) ==
    IF path \notin DOMAIN w.reg
    THEN Result(w, 0, NoException)
    ELSE Bind(db_commit(w, w.reg[path].db), LAMBDA c :
         IF w.reg[path].count = 1
         THEN Bind(db_close(c.w, w.reg[path].db), LAMBDA d :
              Result([d.w EXCEPT !.reg = [q \in DOMAIN d.w.reg \ {path} |->
                                              d.w.reg[q]]], 0, NoException))
         ELSE Result([c.w EXCEPT !.reg[path].count = @ - 1], 0, NoException))

\* disconnect that counts down and never drops the entry.
disconnect_keeps_entry(w, path) ==
    IF path \notin DOMAIN w.reg
    THEN Result(w, 0, "KeyError")
    ELSE LET c == db_commit(w, w.reg[path].db) IN
         Result([c.w EXCEPT !.reg[path].count = @ - 1], 0, c.exc)

\* disconnect without the commit.
disconnect_no_commit(w, path) ==
    IF path \notin DOMAIN w.reg
    THEN Result(w, 0, "KeyError")
    ELSE LET db == w.reg[path].db
             count == w.reg[path].count
         IN  IF count = 1
             THEN LET d == db_close(w, db) IN
                  Result([d.w EXCEPT !.reg = [q \in DOMAIN d.w.reg \ {path} |->
                                                  d.w.reg[q]]], 0, NoException)
             ELSE Result([w EXCEPT !.reg[path].count = count - 1], 0, NoException)

disconnect(w, path) ==
    IF path \notin DOMAIN w.reg
    THEN Result(w, 0, "KeyError")
    ELSE Bind(db_commit(w, w.reg[path].db), LAMBDA c :
         IF w.reg[path].count = 1
         THEN Bind(db_close(c.w, w.reg[path].db), LAMBDA d :
              Result([d.w EXCEPT !.reg = [q \in DOMAIN d.w.reg \ {path} |->
                                              d.w.reg[q]]], 0, NoException))
         ELSE Result([c.w EXCEPT !.reg[path].count = @ - 1], 0, NoException))

\* The bookkeeping table of Database_SQLite.before_experiment_run.
MetadataFields == << <<"experiment", "text">>, <<"metadata", "text">> >>

MetadataRow(id) == [experiment |-> PyStr(id), metadata |-> PyStr("meta:" \o id)]

\* The try block of Database_SQLite.before_experiment_run: create the metadata
\* table and insert the row of the running experiment; an OperationalError of
\* either statement ends the block and is swallowed.
write_metadata(w, h, id) ==
    except_OperationalError(
        Bind(sql_create_table(w, h, "metadata", MetadataFields, "experiment"),
             LAMBDA c : sql_insert(c.w, h, "metadata", MetadataRow(id))))

----------------------------------------------------------------------------
(* Database_SQLite, Table and TableDict objects.
   The experiment classes A and B each declare
       outputs = {"t":  Table(["k"], index = "k", db = Database("/x.db")),
                  "td": TableDict(db = Database("/x.db"))}
   and R is an experiment object of one of the two classes that is used as
   an input, so that its parameters are set up with parameter_type "input".
   A parameter is [conn, read_only, parameter_type, phase]: conn is the
   __database_connection of its Database (0 for None) and phase is how far
   its life has come: "never", "input", "output", "failed", "torn". *)

Owners == {"A", "B", "R"}
ParamNames == {"t", "td"}

\* __init__ of Table and of its Database, lines 18-24 and 180-192.
NewParam == [conn |-> 0, read_only |-> TRUE, parameter_type |-> "none",
             phase |-> "never"]

\* The path each parameter's Database was constructed with.
DatabasePath == [t |-> "/x.db", td |-> "/x.db"]

\* os.path.join(base, p): an absolute p stands alone.
path_join(base, p) == IF SubSeq(p, 1, 1) = "/" THEN p ELSE base \o "/" \o p

\* Table.__init__ line 187: __field_typify(["experiment"] + fields)
TableFields ==
    [t  |-> << <<"experiment", "text">>, <<"k", "text">> >>,
     td |-> << <<"experiment", "text">>, <<"key", "text">>, <<"value", "text">> >>]

TableIndex == [t |-> "k", td |-> "key"]

FieldNames(n) == {TableFields[n][i][1] : i \in DOMAIN TableFields[n]}

RECURSIVE after_last_hyphen(_, _)
\* name[name.rindex("-") + 1:], the whole name when it has no hyphen
after_last_hyphen(name, i) ==
    IF i = 0 THEN name
    ELSE IF SubSeq(name, i, i) = "-" THEN SubSeq(name, i + 1, Len(name))
    ELSE after_last_hyphen(name, i - 1)

\* Table.table_name, lines 219-229
table_name(title, name) == title \o "__" \o after_last_hyphen(name, Len(name))

\* Database_SQLite.execute on a Database whose connection is None fails with
\* AttributeError before any statement reaches sqlite.
Database_create_table(w, o, n, name, fields, primary) ==
    IF w.params[o][n].conn = 0 THEN Result(w, 0, "AttributeError")
    ELSE sql_create_table(w, w.params[o][n].conn, name, fields, primary)

Database_insert(w, o, n, name, row) ==
    IF w.params[o][n].conn = 0 THEN Result(w, 0, "AttributeError")
    ELSE sql_insert(w, w.params[o][n].conn, name, row)

Database_delete(w, o, n, name, id) ==
    IF w.params[o][n].conn = 0 THEN Result(w, 0, "AttributeError")
    ELSE sql_delete(w, w.params[o][n].conn, name, id)

\* Database_SQLite.before_experiment_run, lines 35-53. id is the identifier
\* of the running (dynamic) experiment.
Database_before_experiment_run(w, o, n, ptype, path, id) ==
    IF ptype = "input" /\ path \notin DOMAIN w.store
    THEN Result([w EXCEPT !.params[o][n].parameter_type = ptype], 0, "RuntimeError")
    ELSE Bind(connect([w EXCEPT !.params[o][n].parameter_type = ptype], path),
              LAMBDA c :
         IF ptype = "output"
         THEN write_metadata([c.w EXCEPT !.params[o][n].conn = c.ret], c.ret, id)
         ELSE Result([c.w EXCEPT !.params[o][n].conn = c.ret], 0, NoException))

\* Database_SQLite.after_experiment_run, lines 56-64
Database_after_experiment_run(w, o, n, ptype, path) ==
    Bind(disconnect([w EXCEPT !.params[o][n].conn = 0,
                              !.params[o][n].parameter_type = ptype], path),
         LAMBDA d :
         IF ptype = "output"
         THEN IF path \in DOMAIN d.w.store
              THEN Result([d.w EXCEPT !.store[path].mode = "ro"], 0, NoException)
              ELSE Result(d.w, 0, "OSError")
         ELSE d)

\* Table.before_experiment_run, lines 205-213
Table_before_experiment_run(w, o, n, ptype, path, id, title) ==
    Bind(Database_before_experiment_run(w, o, n, ptype, path, id), LAMBDA b :
         IF ptype = "output"
         THEN Database_create_table([b.w EXCEPT !.params[o][n].read_only = FALSE],
                                    o, n, table_name(title, n), TableFields[n],
                                    TableIndex[n])
         ELSE b)

\* insert that keeps the value the caller gives for 'experiment'.
Table_insert_keeps_experiment(w, o, n, data, id, title) ==
    IF w.params[o][n].read_only # FALSE THEN Result(w, 0, "AssertionError")
    ELSE LET kwargs == [c \in DOMAIN data \cup {"experiment"} |->
                           IF c \in DOMAIN data THEN data[c] ELSE PyStr(id)]
         IN  IF DOMAIN kwargs # FieldNames(n) THEN Result(w, 0, "AssertionError")
             ELSE Database_insert(w, o, n, table_name(title, n), kwargs)

\* insert without the assertion on the key set.
Table_insert_unchecked(w, o, n, data, id, title) ==
    IF w.params[o][n].read_only # FALSE THEN Result(w, 0, "AssertionError")
    ELSE Database_insert(w, o, n, table_name(title, n),
                         [c \in DOMAIN data \cup {"experiment"} |->
                             IF c = "experiment" THEN PyStr(id) ELSE data[c]])

\* Table.insert, lines 231-244: data is the dict given by the caller.
Table_insert(w, o, n, data, id, title) ==
    IF w.params[o][n].read_only # FALSE THEN Result(w, 0, "AssertionError")
    ELSE LET kwargs == [c \in DOMAIN data \cup {"experiment"} |->
                           IF c = "experiment" THEN PyStr(id) ELSE data[c]]
         IN  IF DOMAIN kwargs # FieldNames(n) THEN Result(w, 0, "AssertionError")
             ELSE Database_insert(w, o, n, table_name(title, n), kwargs)

\* Table.clear, lines 246-250
Table_clear(w, o, n, id, title) == Database_delete(w, o, n, table_name(title, n), id)

\* Table.after_experiment_run: Table does not define it; the one inherited
\* from Type hands the call on to the subobject "database" (line 207).
Table_after_experiment_run(w, o, n, ptype, path) ==
    Database_after_experiment_run(w, o, n, ptype, path)

IndexOf(seq, x) == CHOOSE i \in DOMAIN seq : seq[i] = x

RemoveAt(seq, i) == SubSeq(seq, 1, i - 1) \o SubSeq(seq, i + 1, Len(seq))

\* Table.value with Database_SQLite.values, lines 126-149 and 252-271: the
\* rows of experiment id as tuples in column order, the experiment column
\* taken out; ret is [header, table].
Table_value(w, o, n, id, title) ==
    LET h == w.params[o][n].conn
        name == table_name(title, n)
    IN  IF h = 0 THEN Result(w, 0, "AssertionError")
        ELSE IF w.handles[h].closed THEN Result(w, 0, "ProgrammingError")
        ELSE IF name \notin DOMAIN w.store[w.handles[h].path].tables
             THEN Result(w, 0, "OperationalError")
        ELSE LET tbl == w.store[w.handles[h].path].tables[name]
                 cols == Columns(tbl)
                 rows == {[i \in DOMAIN cols |-> FromText(r[cols[i]])] :
                             r \in {x \in tbl.rows : x["experiment"] = id}}
                 index == IndexOf(cols, "experiment")
             IN  Result(w, [header |-> RemoveAt(cols, index),
                            table |-> {RemoveAt(r, index) : r \in rows}], NoException)

\* The key a value read from the store has in a Python dict: a unicode string
\* is the same key as the str with that text, so keys are kept as texts.
DictKey(v) == v.txt

\* dict.update(pairs)
dict_update(d, pairs) ==
    [k \in DOMAIN d \cup {pr[1] : pr \in pairs} |->
        IF \E pr \in pairs : pr[1] = k
        THEN (CHOOSE pr \in pairs : pr[1] = k)[2]
        ELSE d[k]]

\* TableDict.before_experiment_run, lines 308-314. id is the identifier of
\* the running experiment, sid that of the experiment the table belongs to.
TableDict_before_experiment_run(w, o, n, ptype, path, id, sid, title) ==
    Bind(Table_before_experiment_run(w, o, n, ptype, path, id, title), LAMBDA b :
         IF ptype = "input"
         THEN Bind(Table_value(b.w, o, n, sid, title), LAMBDA v :
              LET key_index == IndexOf(v.ret.header, "key")
                  value_index == IndexOf(v.ret.header, "value")
              IN  Result([v.w EXCEPT !.dicts[o] =
                             dict_update(@, {<<DictKey(x[key_index]), x[value_index]>> :
                                                x \in v.ret.table})],
                         0, NoException))
         ELSE b)

RECURSIVE insert_items(_, _, _, _, _, _)
\* The loop of TableDict.flush, lines 297-300, over the keys still to write;
\* the order in which a dict hands out its items is not fixed.
insert_items(w, o, n, keys, id, title) ==
    IF keys = {} THEN Result(w, 0, NoException)
    ELSE LET k == CHOOSE x \in keys : TRUE IN
         Bind(Table_insert(w, o, n, [key |-> PyStr(k), value |-> w.dicts[o][k]],
                           id, title),
              LAMBDA r : insert_items(r.w, o, n, keys \ {k}, id, title))

\* flush that writes the items over what the table holds.
TableDict_flush_no_clear(w, o, n, id, title) ==
    insert_items(w, o, n, DOMAIN w.dicts[o], id, title)

\* TableDict.flush, lines 294-300
TableDict_flush(w, o, n, id, title) ==
    Bind(Table_clear(w, o, n, id, title), LAMBDA c :
         insert_items(c.w, o, n, DOMAIN c.w.dicts[o], id, title))

\* teardown that forgets the flush.
TableDict_after_experiment_run_no_flush(w, o, n, ptype, path, id, title) ==
    IF w.params[o][n].parameter_type # ptype THEN Result(w, 0, "AssertionError")
    ELSE Table_after_experiment_run(w, o, n, ptype, path)

\* TableDict.after_experiment_run, lines 302-306
TableDict_after_experiment_run(w, o, n, ptype, path, id, title) ==
    IF w.params[o][n].parameter_type # ptype THEN Result(w, 0, "AssertionError")
    ELSE IF ptype = "output"
         THEN Bind(TableDict_flush(w, o, n, id, title), LAMBDA f :
              Table_after_experiment_run(f.w, o, n, ptype, path))
         ELSE Table_after_experiment_run(w, o, n, ptype, path)

\* dict.__setitem__ and dict.__delitem__, which TableDict inherits (line 274)
TableDict_setitem(w, o, k, v) ==
    [w EXCEPT !.dicts[o] = [x \in DOMAIN @ \cup {k} |-> IF x = k THEN v ELSE @[x]]]

TableDict_delitem(w, o, k) ==
    [w EXCEPT !.dicts[o] = [x \in DOMAIN @ \ {k} |-> @[x]]]

\* outp_setup_output / outp_tear_down_output of a parameter, and the setup
\* of a parameter as input: before_experiment_run / after_experiment_run of
\* its class.
before_experiment_run(w, o, n, ptype, id, sid, title) ==
    LET path == path_join("/pwd/" \o id, DatabasePath[n]) IN
    IF n = "td"
    THEN TableDict_before_experiment_run(w, o, n, ptype, path, id, sid, title)
    ELSE Table_before_experiment_run(w, o, n, ptype, path, id, title)

after_experiment_run(w, o, n, ptype, id, title) ==
    LET path == path_join("/pwd/" \o id, DatabasePath[n]) IN
    IF n = "td"
    THEN TableDict_after_experiment_run(w, o, n, ptype, path, id, title)
    ELSE Table_after_experiment_run(w, o, n, ptype, path)

----------------------------------------------------------------------------
(* SpecReg: callers use the registry directly, in any order *)

Outcome(op, path, r) == [op |-> op, path |-> path, ret |-> r.ret, exc |-> r.exc]

\* No connection was ever made, no store file exists, no parameter was set up.
InitWorld ==
    /\ database_connections = <<>>
    /\ handles = <<>>
    /\ store = <<>>
    /\ params = [o \in Owners |-> [n \in ParamNames |-> NewParam]]
    /\ dicts = [o \in Owners |-> <<>>]

InitCalls ==
    /\ calls = [p \in Paths |-> [c |-> 0, d |-> 0]]
    /\ underflow = {}
    /\ last = [op |-> "none", path |-> "", ret |-> 0, exc |-> NoException]

\* No experiment object exists.
NoExperiments ==
    /\ cls = [title |-> "A", version |-> 1]
    /\ exps = <<>>

\* The script has not started.
NoRun ==
    /\ experiments = [o \in Owners |-> [title |-> "A", instance |-> ""]]
    /\ run = [pc |-> "idle", cur |-> "A", idx |-> 0, log |-> <<>>, opts |-> <<>>,
              count |-> 0, ops |-> 0, purged |-> {},
              order |-> <<"t", "td">>]
    /\ dirs = <<>>

\* The merge script has not been run.
NoMerger == [pc |-> "idle", argv |-> <<>>, source_paths |-> <<>>, tables |-> <<>>,
             names |-> <<>>, name |-> "", target |-> <<>>, before |-> <<>>,
             exit |-> NoException, count |-> 0]

NoMerge ==
    /\ disk = <<>>
    /\ merger = NoMerger

\* No experiment class of the attribute test is declared.
NoSimple == simple = [pc |-> "none", class |-> <<>>, self |-> <<>>, got |-> <<>>]

\* No run is using the registry from a thread.
NoThreads == threads = <<>>

InitReg == InitWorld /\ InitCalls /\ NoExperiments /\ NoRun /\ NoMerge /\ NoSimple /\ NoThreads

RegConnect(p) ==
    /\ calls[p].c < MaxCalls
    /\ p \in DOMAIN database_connections \/ Len(handles) < MaxHandles
    /\ LET r == connect(World, p) IN
         /\ SetWorld(r.w)
         /\ last' = Outcome("connect", p, r)
    /\ calls' = [calls EXCEPT ![p].c = @ + 1]
    /\ UNCHANGED <<underflow, identVars, runVars, mergeVars, attrVars, raceVars>>

RegDisconnect(p) ==
    /\ calls[p].d < MaxCalls
    /\ LET r == disconnect(World, p) IN
         /\ SetWorld(r.w)
         /\ last' = Outcome("disconnect", p, r)
    /\ calls' = [calls EXCEPT ![p].d = @ + 1]
    /\ underflow' = IF calls[p].d >= calls[p].c THEN underflow \cup {p} ELSE underflow
    /\ UNCHANGED <<identVars, runVars, mergeVars, attrVars, raceVars>>

\* A caller that holds the connection of p writes through it, as the output
\* setup of a Database does.
RegWrite(p, id) ==
    /\ p \in DOMAIN database_connections
    /\ LET r == write_metadata(World, database_connections[p].db, id) IN
         /\ SetWorld(r.w)
         /\ last' = Outcome("execute", p, r)
    /\ UNCHANGED <<calls, underflow, identVars, runVars, mergeVars, attrVars, raceVars>>

NextReg ==
    \/ \E p \in Paths : RegConnect(p)
    \/ \E p \in Paths : RegDisconnect(p)
    \/ \E p \in Paths, id \in Ids : RegWrite(p, id)

SpecReg == InitReg /\ [][NextReg]_vars

----------------------------------------------------------------------------
(* The identity hash: Experiment.__setup_output_directory, lines 225-252 *)

\* The characters the model's strings use, in ASCII order.
Ascii == " -0123456789:ABabdeimnoprstvx"

Ord(c) == CHOOSE i \in 1..Len(Ascii) : SubSeq(Ascii, i, i) = c

Min(a, b) == IF a < b THEN a ELSE b

\* Python's order on str: the first differing character decides, a proper
\* prefix comes first.
StrLess(s, t) ==
    \E i \in 1..(Min(Len(s), Len(t)) + 1) :
        /\ SubSeq(s, 1, i - 1) = SubSeq(t, 1, i - 1)
        /\ \/ i > Len(s) /\ i <= Len(t)
           \/ /\ i <= Len(s) /\ i <= Len(t)
              /\ Ord(SubSeq(s, i, i)) < Ord(SubSeq(t, i, i))

RECURSIVE sorted(_)
\* sorted(keys): the keys as a list in increasing order.
sorted(S) ==
    IF S = {} THEN <<>>
    ELSE LET least == CHOOSE x \in S : \A y \in S \ {x} : StrLess(x, y)
         IN  <<least>> \o sorted(S \ {least})

\* A dict that remembers the order its keys came in: a list of <<key, value>>.
DictKeys(d) == {d[i][1] : i \in DOMAIN d}

DictGet(d, k) == d[CHOOSE i \in DOMAIN d : d[i][1] = k][2]

\* d[k] = v, and d.update({k: v})
DictSet(d, k, v) ==
    IF k \in DictKeys(d)
    THEN [i \in DOMAIN d |-> IF d[i][1] = k THEN <<k, v>> ELSE d[i]]
    ELSE Append(d, <<k, v>>)

\* The keys in the order the dict walks them.
DictOrder(d) == [i \in DOMAIN d |-> d[i][1]]

Digit(n) == SubSeq("0123456789", n + 1, n + 1)

RECURSIVE Dec(_)
\* "%d" % n
Dec(n) == IF n < 10 THEN Digit(n) ELSE Dec(n \div 10) \o Digit(n % 10)

RECURSIVE md5_updates(_, _, _)
\* The bytes fed to the digest by the loop over keys, lines 231-232.
md5_updates(m, metadata, keys) ==
    IF keys = <<>> THEN m
    ELSE md5_updates(m \o Head(keys) \o " " \o DictGet(metadata, Head(keys)),
                     metadata, Tail(keys))

\* md5 as a digest without collisions: the digest of a text stands for the
\* text, so two identifiers are equal exactly when the hashed bytes are.
hexdigest(m) == "md5(" \o m \o ")"

\* The identifier with the keys hashed in the order the dict walks them.
experiment_identifier_unsorted(title, version, metadata) ==
    LET m0 == "version " \o Dec(version)
        m == md5_updates(m0, metadata, DictOrder(metadata))
    IN  title \o "-" \o hexdigest(m)

\* Lines 229-234: the identifier of a metadata dict.
experiment_identifier(title, version, metadata) ==
    LET m0 == "version " \o Dec(version)
        m == md5_updates(m0, metadata, sorted(DictKeys(metadata)))
    IN  title \o "-" \o hexdigest(m)

----------------------------------------------------------------------------
(* SpecIdent: two Experiment objects of one class, each with its own inputs,
   go through __setup_output_directory one after the other *)

Titles == {"A", "B"}
Versions == {1, 2}
InputNames == {"a", "b", "ab"}
InputValues == {"", "a"}
Dates == {"d1", "d2"}
Experiments == {1, 2}

\* self.inputs in the order the dict walks it: <<name, value>> with the names
\* distinct, the value being what inp_metadata() reports under the name.
InputLists ==
    {l \in UNION {[1..n -> InputNames \X InputValues] : n \in 0..MaxInputs} :
        \A i, j \in DOMAIN l : i # j => l[i][1] # l[j][1]}

NewExperiment(inputs) ==
    [inputs |-> inputs, pc |-> "collect", pos |-> 0, metadata |-> <<>>,
     instance |-> "", file |-> <<>>]

InitIdent ==
    /\ InitWorld /\ InitCalls /\ NoRun /\ NoMerge /\ NoSimple /\ NoThreads
    /\ cls \in [title : Titles, version : Versions]
    /\ exps \in [Experiments -> {NewExperiment(l) : l \in InputLists}]

\* The script runs one experiment after the other.
Turn(e) == \A f \in Experiments : f < e => exps[f].pc = "done"

\* Lines 227-228: metadata.update(self.inputs[name].inp_metadata())
CollectMetadata(e) ==
    /\ Turn(e)
    /\ exps[e].pc = "collect"
    /\ exps[e].pos < Len(exps[e].inputs)
    /\ LET inp == exps[e].inputs[exps[e].pos + 1] IN
         exps' = [exps EXCEPT ![e].metadata = DictSet(@, inp[1], inp[2]),
                              ![e].pos = @ + 1]
    /\ UNCHANGED <<cls, regVars, callVars, objVars, runVars, mergeVars, attrVars, raceVars>>

\* Lines 229-234
ComputeIdentifier(e) ==
    /\ Turn(e)
    /\ exps[e].pc = "collect"
    /\ exps[e].pos = Len(exps[e].inputs)
    /\ exps' = [exps EXCEPT
                   ![e].instance = experiment_identifier(cls.title, cls.version,
                                                         exps[e].metadata),
                   ![e].pc = "hashed"]
    /\ UNCHANGED <<cls, regVars, callVars, objVars, runVars, mergeVars, attrVars, raceVars>>

\* Lines 242-250: the fields added after the hash, and the metadata file.
\* date is str(datetime.datetime.now()).
PersistMetadata(e, date) ==
    /\ Turn(e)
    /\ exps[e].pc = "hashed"
    /\ LET md == DictSet(DictSet(DictSet(exps[e].metadata, "date", date),
                                  "experiment-name", cls.title),
                          "experiment-version", Dec(cls.version))
       IN  exps' = [exps EXCEPT ![e].metadata = md, ![e].file = md, ![e].pc = "done"]
    /\ UNCHANGED <<cls, regVars, callVars, objVars, runVars, mergeVars, attrVars, raceVars>>

NextIdent ==
    \/ \E e \in Experiments : CollectMetadata(e)
    \/ \E e \in Experiments : ComputeIdentifier(e)
    \/ \E e \in Experiments, d \in Dates : PersistMetadata(e, d)

SpecIdent == InitIdent /\ [][NextIdent]_vars

----------------------------------------------------------------------------
(* Spec: a script executes the experiments A and B one call after the other,
   inserts into their tables and opens finished experiments as inputs *)

Classes == {"A", "B"}

\* Experiment.version, line 21
ClassVersion == 1

\* inputs = {"m": String(), "n": String()} and the outputs, in the order the
\* dicts are walked.
Inputs == <<"m", "n">>
Outputs == {"t", "td"}

\* self.outputs.items(), lines 195 and 201: a dict hands out its items in an
\* order that the program does not choose, the same at every call.
OutputOrders == {<<"t", "td">>, <<"td", "t">>}

\* What the command line can give for an input.
RunValues == {"1"}

\* What the run body stores in its TableDict.
Keys == {"a", "b"}
Values == {PyStr("1"), PyInt("1")}

\* The dicts a caller hands to Table.insert of "t".
InsertRows ==
    {<<>>, [k |-> PyStr("1")], [k |-> PyStr("1"), z |-> PyStr("1")],
     [experiment |-> PyStr("mine"), k |-> PyStr("1")]}

\* execute() that sets the outputs up before it allocates the directory.
execute_order_setup_first ==
    <<"inputs", "identify", "setup", "allocate", "run", "teardown">>

\* execute() that calls run() before the outputs are set up.
execute_order_run_first ==
    <<"inputs", "identify", "allocate", "run", "setup", "teardown">>

\* The stages of execute() in program order, lines 185-202.
execute_order == <<"inputs", "identify", "allocate", "setup", "run", "teardown">>

StageAfter(stage) ==
    execute_order[(CHOOSE i \in DOMAIN execute_order : execute_order[i] = stage) + 1]

\* last is the outcome of Table.insert when the step before was a call of it.
NoCall == [op |-> "none", exc |-> NoException]

\* The files at the database path when the script starts: none, or a file
\* without tables that the user may not write.
InitialStores == {<<>>, ("/x.db" :> [EmptyDb EXCEPT !.mode = "ro"])}

Init ==
    /\ database_connections = <<>>
    /\ handles = <<>>
    /\ store \in InitialStores
    /\ params = [o \in Owners |-> [n \in ParamNames |-> NewParam]]
    /\ dicts = [o \in Owners |-> <<>>]
    /\ NoExperiments /\ NoMerge /\ NoSimple /\ NoThreads
    /\ calls = [p \in Paths |-> [c |-> 0, d |-> 0]]
    /\ underflow = {}
    /\ last = NoCall
    /\ experiments = [o \in Owners |->
                         [title |-> IF o = "R" THEN "A" ELSE o, instance |-> ""]]
    /\ \E order \in OutputOrders :
           run = [pc |-> "idle", cur |-> "A", idx |-> 0, log |-> <<>>, opts |-> <<>>,
                  count |-> 0, ops |-> 0, purged |-> {}, order |-> order]
    /\ dirs = <<>>

Frame == UNCHANGED <<calls, underflow, identVars, mergeVars, attrVars, raceVars>>

\* The experiment whose identifier a parameter of o stamps on its rows: the
\* one that is executing, else the one the parameter was last run by.
DynamicId(o) ==
    IF run.pc # "idle" THEN experiments[run.cur].instance ELSE experiments[o].instance

\* execute() is left, by return or by an exception: its locals are gone.
Leave(r) == [r EXCEPT !.pc = "idle", !.cur = "A", !.idx = 0, !.log = <<>>,
                      !.opts = <<>>, !.purged = {}]

\* An exception that leaves execute(): the call is over.
Abort(r) == Leave(r)

\* execute(), lines 164-182: the call starts.
Execute(o) ==
    /\ run.pc = "idle"
    /\ run.count < MaxRuns
    /\ run' = [run EXCEPT !.pc = "inputs", !.cur = o, !.idx = 0, !.log = <<>>,
                          !.opts = <<>>, !.purged = {}, !.count = @ + 1]
    /\ last' = NoCall
    /\ UNCHANGED <<regVars, objVars, experiments, dirs>>
    /\ Frame

\* Lines 185-189: the next input takes its value from the command line.
ResolveInput(v) ==
    /\ run.pc = "inputs"
    /\ run.idx < Len(Inputs)
    /\ LET name == Inputs[run.idx + 1] IN
         run' = [run EXCEPT !.opts = DictSet(@, name, v),
                            !.idx = @ + 1,
                            !.log = Append(@, <<"inputs", name>>),
                            !.pc = IF run.idx + 1 = Len(Inputs)
                                   THEN StageAfter("inputs") ELSE @]
    /\ last' = NoCall
    /\ UNCHANGED <<regVars, objVars, experiments, dirs>>
    /\ Frame

\* Lines 185-189 with 258-265: inp_extract_cmdline_parser of the next input
\* raises (the value is missing or cannot be parsed); the exception leaves
\* execute().
ResolveInputFails ==
    /\ run.pc = "inputs"
    /\ run.idx < Len(Inputs)
    /\ run' = Abort(run)
    /\ last' = NoCall
    /\ UNCHANGED <<regVars, objVars, experiments, dirs>>
    /\ Frame

RECURSIVE collect_metadata(_, _, _)
\* Lines 226-228: metadata.update(self.inputs[name].inp_metadata()), where the
\* inp_metadata() of an input is {name: value}.
collect_metadata(metadata, names, opts) ==
    IF names = <<>> THEN metadata
    ELSE collect_metadata(DictSet(metadata, Head(names), DictGet(opts, Head(names))),
                          Tail(names), opts)

\* Lines 226-234: the identifier of this call.
Identify ==
    /\ run.pc = "identify"
    /\ experiments' = [experiments EXCEPT ![run.cur].instance =
            experiment_identifier(experiments[run.cur].title, ClassVersion,
                                  collect_metadata(<<>>, Inputs, run.opts))]
    /\ run' = [run EXCEPT !.pc = StageAfter("identify"), !.idx = 0,
                          !.log = Append(@, <<"identify", "">>)]
    /\ last' = NoCall
    /\ UNCHANGED <<regVars, objVars, dirs>>
    /\ Frame

\* A file of a result directory: its name and the call of execute() that
\* wrote it (the metadata file holds the date of its call).
File(name, call) == [name |-> name, call |-> call]

\* shutil.rmtree(output_path) when the path exists, lines 236-238.
rmtree(ds, id) == [d \in DOMAIN ds \ {id} |-> ds[d]]

\* The files that are under the path id.
listdir(ds, id) == IF id \in DOMAIN ds THEN ds[id] ELSE {}

\* Lines 240-250 without the purge: the metadata file is written into the
\* directory as it is.
setup_output_directory_no_purge(ds, id, call) ==
    (id :> (listdir(ds, id) \cup {File("metadata", call)})) @@ ds

\* Lines 235-250: the directory is removed when it exists, made anew and
\* given its metadata file.
setup_output_directory(ds, id, call) ==
    (id :> {File("metadata", call)}) @@ rmtree(ds, id)

\* Line 191: __setup_output_directory() returns.
Allocate ==
    /\ run.pc = "allocate"
    /\ dirs' = setup_output_directory(dirs, experiments[run.cur].instance, run.count)
    /\ run' = [run EXCEPT !.pc = StageAfter("allocate"), !.idx = 0,
                          !.purged = listdir(dirs, experiments[run.cur].instance),
                          !.log = Append(@, <<"allocate", "">>)]
    /\ last' = NoCall
    /\ UNCHANGED <<regVars, objVars, experiments>>
    /\ Frame

\* Line 240: os.mkdir(output_path) raises (no permission, disk full), after
\* the purge of the directory that existed; the exception leaves execute().
AllocateFails ==
    /\ run.pc = "allocate"
    /\ dirs' = rmtree(dirs, experiments[run.cur].instance)
    /\ run' = Abort(run)
    /\ last' = NoCall
    /\ UNCHANGED <<regVars, objVars, experiments>>
    /\ Frame

\* sqlite3.connect can still be called, or the call will not need it.
CanConnect(n) ==
    \/ DatabasePath[n] \in DOMAIN database_connections
    \/ Len(handles) < MaxOpens

\* Lines 195-197: outp_setup_output() of the next output.
SetupOutput ==
    /\ run.pc = "setup"
    /\ run.idx < Len(run.order)
    /\ CanConnect(run.order[run.idx + 1])
    /\ \E o \in {run.cur}, n \in {run.order[run.idx + 1]} :
       \E r \in {before_experiment_run(World, o, n, "output", experiments[o].instance,
                                       experiments[o].instance, experiments[o].title)} :
           /\ last' = NoCall
           /\ IF r.exc # NoException
              THEN /\ SetWorld([r.w EXCEPT !.params[o][n].phase = "failed"])
                   /\ run' = Abort(run)
              ELSE /\ SetWorld([r.w EXCEPT !.params[o][n].phase = "output"])
                   /\ run' = [run EXCEPT !.idx = @ + 1,
                                         !.log = Append(@, <<"setup", n>>),
                                         !.pc = IF run.idx + 1 = Len(run.order)
                                                THEN StageAfter("setup") ELSE @]
    /\ UNCHANGED <<experiments, dirs>>
    /\ Frame

\* The run body stores a value in its TableDict.
BodySetItem(k, v) ==
    /\ run.pc = "run"
    /\ run.ops < MaxOps
    /\ SetWorld(TableDict_setitem(World, run.cur, k, v))
    /\ last' = NoCall
    /\ run' = [run EXCEPT !.ops = @ + 1]
    /\ UNCHANGED <<experiments, dirs>>
    /\ Frame

\* The run body deletes a key of its TableDict.
BodyDelItem(k) ==
    /\ run.pc = "run"
    /\ run.ops < MaxOps
    /\ k \in DOMAIN dicts[run.cur]
    /\ SetWorld(TableDict_delitem(World, run.cur, k))
    /\ last' = NoCall
    /\ run' = [run EXCEPT !.ops = @ + 1]
    /\ UNCHANGED <<experiments, dirs>>
    /\ Frame

\* The run body writes a file into its result directory.
BodyWriteFile ==
    /\ run.pc = "run"
    /\ run.ops < MaxOps
    /\ dirs' = [dirs EXCEPT ![experiments[run.cur].instance] =
                                @ \cup {File("out", run.count)}]
    /\ last' = NoCall
    /\ run' = [run EXCEPT !.ops = @ + 1]
    /\ UNCHANGED <<regVars, objVars, experiments>>
    /\ Frame

\* The run body calls flush() of its TableDict.
BodyFlush ==
    /\ run.pc = "run"
    /\ run.ops < MaxOps
    /\ \E r \in {TableDict_flush(World, run.cur, "td", experiments[run.cur].instance,
                                 experiments[run.cur].title)} :
           /\ SetWorld(r.w)
           /\ last' = NoCall
           /\ run' = IF r.exc # NoException
                     THEN Abort([run EXCEPT !.ops = @ + 1])
                     ELSE [run EXCEPT !.ops = @ + 1]
    /\ UNCHANGED <<experiments, dirs>>
    /\ Frame

\* Table.insert of the table "t" of o, called by the run body or, between two
\* calls of execute(), by the script; an exception in the run body ends the call.
Insert(o, data) ==
    /\ \/ run.pc = "idle"
       \/ run.pc = "run" /\ o = run.cur
    /\ run.ops < MaxOps
    /\ \E r \in {Table_insert(World, o, "t", data, DynamicId(o),
                              experiments[o].title)} :
           /\ SetWorld(r.w)
           /\ last' = [op |-> "insert", exc |-> r.exc,
                        phase |-> params[o]["t"].phase, keys |-> DOMAIN data,
                        wrote |-> r.w.store # store]
           /\ run' = IF r.exc # NoException /\ run.pc = "run"
                     THEN Abort([run EXCEPT !.ops = @ + 1])
                     ELSE [run EXCEPT !.ops = @ + 1]
    /\ UNCHANGED <<experiments, dirs>>
    /\ Frame

\* Line 199: run() returns.
RunReturn ==
    /\ run.pc = "run"
    /\ run' = [run EXCEPT !.pc = StageAfter("run"), !.idx = 0,
                          !.log = Append(@, <<"run", "">>)]
    /\ last' = NoCall
    /\ UNCHANGED <<regVars, objVars, experiments, dirs>>
    /\ Frame

\* Line 199: run() raises.
RunRaise ==
    /\ run.pc = "run"
    /\ run' = Abort(run)
    /\ last' = NoCall
    /\ UNCHANGED <<regVars, objVars, experiments, dirs>>
    /\ Frame

\* Lines 201-202: outp_tear_down_output() of the next output.
TeardownOutput ==
    /\ run.pc = "teardown"
    /\ run.idx < Len(run.order)
    /\ \E o \in {run.cur}, n \in {run.order[run.idx + 1]} :
       \E r \in {after_experiment_run(World, o, n, "output", experiments[o].instance,
                                      experiments[o].title)} :
           /\ last' = NoCall
           /\ IF r.exc # NoException
              THEN /\ SetWorld([r.w EXCEPT !.params[o][n].phase = "failed"])
                   /\ run' = Abort(run)
              ELSE /\ SetWorld([r.w EXCEPT !.params[o][n].phase = "torn"])
                   /\ run' = [run EXCEPT !.idx = @ + 1,
                                         !.log = Append(@, <<"teardown", n>>)]
    /\ UNCHANGED <<experiments, dirs>>
    /\ Frame

\* Lines 204-206: execute() returns the identifier.
Finish ==
    /\ run.pc = "teardown"
    /\ run.idx = Len(run.order)
    /\ run' = Leave(run)
    /\ last' = NoCall
    /\ UNCHANGED <<regVars, objVars, experiments, dirs>>
    /\ Frame

\* The script constructs an experiment object of the class of o for the
\* instance o.execute() returned, to use it as an input, and its parameter n
\* is set up with parameter_type "input".
ReaderOpen(o, n) ==
    /\ run.pc = "idle"
    /\ run.ops < MaxOps
    /\ experiments[o].instance # ""
    /\ CanConnect(n)
    /\ \A x \in ParamNames : params["R"][x].phase # "input"
    /\ \E r \in {before_experiment_run(
                       [World EXCEPT !.params["R"] = [x \in ParamNames |-> NewParam],
                                     !.dicts["R"] = <<>>],
                       "R", n, "input", experiments[o].instance,
                       experiments[o].instance, experiments[o].title)} :
           SetWorld([r.w EXCEPT !.params["R"][n].phase =
                        IF r.exc # NoException THEN "failed" ELSE "input"])
    /\ last' = NoCall
    /\ experiments' = [experiments EXCEPT !["R"] = experiments[o]]
    /\ run' = [run EXCEPT !.ops = @ + 1]
    /\ UNCHANGED dirs
    /\ Frame

\* The parameter of the input experiment is torn down.
ReaderClose(n) ==
    /\ run.pc = "idle"
    /\ params["R"][n].phase = "input"
    /\ \E r \in {after_experiment_run(World, "R", n, "input",
                                      experiments["R"].instance,
                                      experiments["R"].title)} :
           /\ last' = NoCall
           /\ SetWorld([r.w EXCEPT !.params["R"][n].phase =
                            IF r.exc # NoException THEN "failed" ELSE "torn"])
    /\ UNCHANGED runVars
    /\ Frame

Next ==
    \/ \E o \in Classes : Execute(o)
    \/ \E v \in RunValues : ResolveInput(v)
    \/ ResolveInputFails
    \/ Identify
    \/ Allocate
    \/ AllocateFails
    \/ SetupOutput
    \/ \E k \in Keys, v \in Values : BodySetItem(k, v)
    \/ \E k \in Keys : BodyDelItem(k)
    \/ BodyFlush
    \/ BodyWriteFile
    \/ \E o \in Owners, d \in InsertRows : Insert(o, d)
    \/ RunReturn
    \/ RunRaise
    \/ TeardownOutput
    \/ Finish
    \/ \E o \in Classes, n \in ParamNames : ReaderOpen(o, n)
    \/ \E n \in ParamNames : ReaderClose(n)

Spec == Init /\ [][Next]_vars

----------------------------------------------------------------------------
(* The merge script: Database_SQlite_Merger, database.py lines 318-405 *)

MaxMerges == 2    \* SpecMerge: runs of the merge script on the target
MaxSources == 2   \* SpecMerge: source paths on one command line

TargetPath == "/m.db"

\* The statement create_table builds (lines 114-122), which sqlite_master
\* keeps as the sql of the table: the name, the columns with their types in
\* declared order, and the column marked PRIMARY KEY.
CT(name, fields, primary) == [name |-> name, fields |-> fields, primary |-> primary]

\* Column lists of the tables in the source files.
KeyValue == <<<<"experiment", "text">>, <<"key", "text">>, <<"value", "text">>>>
KeyNumber == <<<<"experiment", "text">>, <<"key", "text">>, <<"value", "integer">>>>
Plain == <<<<"experiment", "text">>, <<"k", "text">>>>

\* A database file: the rows of sqlite_master with type 'table' in rowid
\* order, and the rows of every table as a bag of tuples.
EmptyFile == [master |-> <<>>, data |-> <<>>]

File1(sql, rows) ==
    [master |-> <<[name |-> sql.name, sql |-> sql]>>,
     data |-> (sql.name :> SetToBag(rows))]

File2(sql1, rows1, sql2, rows2) ==
    [master |-> <<[name |-> sql1.name, sql |-> sql1], [name |-> sql2.name, sql |-> sql2]>>,
     data |-> (sql1.name :> SetToBag(rows1)) @@ (sql2.name :> SetToBag(rows2))]

\* The source files on disk. /a.db and /b.db share one row of T; /c.db
\* declares T with another creation statement; /d.db has a row of T whose
\* primary key is the one of a different row of /a.db.
SourceFiles ==
    ("/a.db" :> File2(CT("U", Plain, ""), {<<"x", "1">>},
                      CT("T", KeyValue, "key"),
                      {<<"x", "k1", "v1">>, <<"x", "k2", "v2">>}))
    @@ ("/b.db" :> File1(CT("T", KeyValue, "key"),
                         {<<"x", "k1", "v1">>, <<"x", "k3", "v3">>}))
    @@ ("/c.db" :> File2(CT("U", Plain, ""), {<<"x", "1">>, <<"y", "2">>},
                         CT("T", KeyNumber, "key"), {<<"y", "k1", "7">>}))
    @@ ("/d.db" :> File1(CT("T", KeyValue, "key"), {<<"y", "k1", "v2">>}))

\* The paths a command line can name; /zz.db does not exist.
SourcePaths == DOMAIN SourceFiles \cup {"/zz.db"}

CommandLines == UNION {[1..n -> SourcePaths] : n \in 0..MaxSources}

Range(s) == {s[i] : i \in DOMAIN s}

\* The orders in which a Python dict with the keys S can be iterated.
Orders(S) == {s \in [1..Cardinality(S) -> S] : Range(s) = S}

TableNames(db) == {db.master[i].name : i \in DOMAIN db.master}

Headers(sql) == [i \in DOMAIN sql.fields |-> sql.fields[i][1]]

\* Lines 326-332: for source in source_paths: assert os.path.exists(source),
\* then ATTACH it as db_<counter>. attached[i] is the path of alias db_<i-1>.
RECURSIVE attach(_, _, _)
attach(files, argv, attached) ==
    IF Len(attached) = Len(argv)
    THEN [source_paths |-> attached, exc |-> NoException]
    ELSE LET source == argv[Len(attached) + 1] IN
         IF source \notin DOMAIN files
         THEN [source_paths |-> attached, exc |-> "AssertionError"]
         ELSE attach(files, argv, Append(attached, source))

Catalog(tables, name, exc) == [tables |-> tables, name |-> name, exc |-> exc]

\* The variant of collect_master that does not compare the sql of two
\* tables with one name.
RECURSIVE collect_master_unchecked(_, _, _, _)
collect_master_unchecked(master, db, j, tables) ==
    IF j > Len(master) THEN Catalog(tables, "", NoException)
    ELSE LET name == master[j].name
         IN  IF name \in DOMAIN tables
             THEN collect_master_unchecked(master, db, j + 1,
                      [tables EXCEPT ![name].databases = Append(@, db)])
             ELSE collect_master_unchecked(master, db, j + 1,
                      (name :> [sql |-> master[j].sql, databases |-> <<db>>]) @@ tables)

\* Lines 342-352: the rows of db.sqlite_master, from row j on. A name that
\* is in self.tables with another sql ends the script (sys.exit(-1)).
RECURSIVE collect_master(_, _, _, _)
collect_master(master, db, j, tables) ==
    IF j > Len(master) THEN Catalog(tables, "", NoException)
    ELSE LET table == master[j]
             name == table.name
         IN  IF name \in DOMAIN tables
             THEN IF tables[name].sql # table.sql
                  THEN Catalog(tables, name, "SystemExit")
                  ELSE collect_master(master, db, j + 1,
                           [tables EXCEPT ![name].databases = Append(@, db)])
             ELSE collect_master(master, db, j + 1,
                      (name :> [sql |-> table.sql, databases |-> <<db>>]) @@ tables)

\* Lines 339-352: for db in self.source_paths, in the order dbs of the dict.
RECURSIVE collect_tables(_, _, _, _, _)
collect_tables(files, source_paths, dbs, i, tables) ==
    IF i > Len(dbs) THEN Catalog(tables, "", NoException)
    ELSE Bind(collect_master(files[source_paths[dbs[i]]].master, dbs[i], 1, tables),
              LAMBDA c : collect_tables(files, source_paths, dbs, i + 1, c.tables))

\* DROP TABLE name; the error on a table that is missing is passed over
\* (lines 354-357).
drop_table(db, name) ==
    [master |-> SelectSeq(db.master, LAMBDA t : t.name # name),
     data |-> [n \in DOMAIN db.data \ {name} |-> db.data[n]]]

\* cur.execute(table["sql"]), line 358
execute_sql(db, sql) ==
    [master |-> Append(db.master, [name |-> sql.name, sql |-> sql]),
     data |-> (sql.name :> EmptyBag) @@ db.data]

\* Lines 353-359: for name, table in self.tables.items(), in the order names.
RECURSIVE create_tables(_, _, _, _)
create_tables(db, tables, names, i) ==
    IF i > Len(names) THEN db
    ELSE create_tables(execute_sql(drop_table(db, names[i]), tables[names[i]].sql),
                       tables, names, i + 1)

\* The variant of select_rows in which rows is set anew for every database.
select_rows_last(files, source_paths, name, databases) ==
    BagToSet(files[source_paths[databases[Len(databases)]]].data[name])

\* Lines 370-375: rows = set(); every row of name in every database that
\* has the table is added to it.
select_rows(files, source_paths, name, databases) ==
    UNION {BagToSet(files[source_paths[db]].data[name]) : db \in Range(databases)}

Column(sql, c) == CHOOSE i \in DOMAIN sql.fields : sql.fields[i][1] = c

\* Two rows of one executemany with the same value in the PRIMARY KEY column.
PrimaryClash(sql, rows) ==
    /\ sql.primary # ""
    /\ \E r1 \in rows : \E r2 \in rows \ {r1} :
           r1[Column(sql, sql.primary)] = r2[Column(sql, sql.primary)]

Filled(target, rows, exc) == [target |-> target, TableDictrows |-> rows, exc |-> exc]

\* Lines 368-386: for name in self.tables, from the i-th name on: the rows of
\* the sources are inserted into the table of the target, and are added to
\* TableDictrows when the columns are experiment, key, value.
RECURSIVE insert_tables(_, _, _, _, _, _, _)
insert_tables(target, files, source_paths, tables, names, i, TableDictrows) ==
    IF i > Len(names) THEN Filled(target, TableDictrows, NoException)
    ELSE LET name == names[i]
             rows == select_rows(files, source_paths, name, tables[name].databases)
             headers == Headers(tables[name].sql)
         IN  IF PrimaryClash(tables[name].sql, rows)
             THEN Filled(target, TableDictrows, "IntegrityError")
             ELSE insert_tables([target EXCEPT !.data[name] = @ (+) SetToBag(rows)],
                                files, source_paths, tables, names, i + 1,
                                IF headers = <<"experiment", "key", "value">>
                                THEN TableDictrows \cup rows
                                ELSE TableDictrows)

\* Lines 388-390: CREATE TABLE IF NOT EXISTS TableDict (experiment text, key
\* text, value text), then the rows of TableDictrows are inserted into it.
insert_TableDict(target, TableDictrows) ==
    LET db == IF "TableDict" \in TableNames(target) THEN target
              ELSE execute_sql(target, CT("TableDict", KeyValue, ""))
    IN  [db EXCEPT !.data["TableDict"] = @ (+) SetToBag(TableDictrows)]

\* The script before its first run: the sources exist, the target does not.
InitMerge ==
    /\ InitWorld /\ InitCalls /\ NoExperiments /\ NoRun
    /\ disk = SourceFiles
    /\ merger = NoMerger
    /\ NoSimple /\ NoThreads

\* Lines 400-401 and 321-334: a run of the script starts; Database_SQlite_Merger
\* (sys.argv[1], sys.argv[2:]) connects to the target, which creates the
\* file when it is missing, and attaches the sources. A run that has ended left
\* on disk what was committed.
MergerInit(argv) ==
    /\ merger.pc \in {"idle", "done", "exited"}
    /\ merger.count < MaxMerges
    /\ LET files == IF TargetPath \in DOMAIN disk THEN disk
                    ELSE (TargetPath :> EmptyFile) @@ disk
       IN  /\ disk' = files
           /\ \E a \in {attach(files, argv, <<>>)} :
                  merger' = [pc |-> IF a.exc = NoException THEN "init" ELSE "exited",
                             argv |-> argv,
                             source_paths |-> a.source_paths,
                             tables |-> <<>>, names |-> <<>>, name |-> "",
                             target |-> files[TargetPath],
                             before |-> files[TargetPath],
                             exit |-> a.exc,
                             count |-> merger.count + 1]
    /\ UNCHANGED <<regVars, callVars, identVars, objVars, runVars, attrVars, raceVars>>

\* The variant of collect_and_create_tables that has created the tables it
\* catalogued when it finds the conflict.
CollectAndCreateTables_as_catalogued ==
    /\ merger.pc = "init"
    /\ \E dbs \in Orders(DOMAIN merger.source_paths) :
       \E c \in {collect_tables(disk, merger.source_paths, dbs, 1, <<>>)} :
       \E names \in Orders(DOMAIN c.tables) :
       \E db \in {create_tables(merger.target, c.tables, names, 1)} :
           /\ merger' = [merger EXCEPT
                             !.pc = IF c.exc # NoException THEN "exited" ELSE "created",
                             !.exit = c.exc, !.tables = c.tables, !.name = c.name,
                             !.names = names, !.target = db]
           /\ disk' = [disk EXCEPT ![TargetPath] = db]
    /\ UNCHANGED <<regVars, callVars, identVars, objVars, runVars, attrVars, raceVars>>

\* Line 402, merger.collect_and_create_tables(), lines 336-361. The schema
\* statements are durable as they are executed.
CollectAndCreateTables ==
    /\ merger.pc = "init"
    /\ \E dbs \in Orders(DOMAIN merger.source_paths) :
       \E c \in {collect_tables(disk, merger.source_paths, dbs, 1, <<>>)} :
           IF c.exc # NoException
           THEN /\ merger' = [merger EXCEPT !.pc = "exited", !.exit = c.exc,
                                            !.tables = c.tables, !.name = c.name]
                /\ UNCHANGED disk
           ELSE \E names \in Orders(DOMAIN c.tables) :
                \E db \in {create_tables(merger.target, c.tables, names, 1)} :
                    /\ merger' = [merger EXCEPT !.pc = "created", !.tables = c.tables,
                                                !.names = names, !.target = db]
                    /\ disk' = [disk EXCEPT ![TargetPath] = db]
    /\ UNCHANGED <<regVars, callVars, identVars, objVars, runVars, attrVars, raceVars>>

\* Line 403, merger.collect_data(), lines 363-393. The inserts are pending
\* until self.target.commit() in line 393; when an insert raises, the script
\* ends and they are lost.
CollectData ==
    /\ merger.pc = "created"
    /\ \E f \in {insert_tables(merger.target, disk, merger.source_paths,
                               merger.tables, merger.names, 1, {})} :
           IF f.exc # NoException
           THEN /\ merger' = [merger EXCEPT !.pc = "exited", !.exit = f.exc,
                                            !.target = disk[TargetPath]]
                /\ UNCHANGED disk
           ELSE \E db \in {insert_TableDict(f.target, f.TableDictrows)} :
                    /\ merger' = [merger EXCEPT !.pc = "done", !.target = db]
                    /\ disk' = [disk EXCEPT ![TargetPath] = db]
    /\ UNCHANGED <<regVars, callVars, identVars, objVars, runVars, attrVars, raceVars>>

NextMerge ==
    \/ \E argv \in CommandLines : MergerInit(argv)
    \/ CollectAndCreateTables
    \/ CollectData

SpecMerge == InitMerge /\ [][NextMerge]_vars

----------------------------------------------------------------------------
(* Attribute access on an Experiment in its run body:
   tests/experiment_getattr/test.py *)

\* The parameter names of the test and a name that no dict has.
ParameterNames == {"abc", "xyz", "xxx"}
AttributeNames == ParameterNames \cup {"zzz"}

\* The File object a class declares under key in its dict inputs or outputs
\* (test.py lines 9-12).
Declared(dict, key) == [dict |-> dict, key |-> key, of |-> "class"]

\* An experiment class with the given keys of inputs and of outputs.
ExperimentClass(ins, outs) ==
    [inputs |-> [k \in ins |-> Declared("inputs", k)],
     outputs |-> [k \in outs |-> Declared("outputs", k)]]

\* test.py lines 8-12
SimpleExperiment == ExperimentClass({"abc", "xxx"}, {"xyz", "xxx"})

\* copy.deepcopy of a dict of parameters: objects of the instance's own.
deepcopy(d) == [k \in DOMAIN d |-> [d[k] EXCEPT !.of = "self"]]

\* Experiment.__init__, lines 96-99: self.inputs and self.outputs are deep
\* copies of the dicts of the class.
Experiment_init(class) ==
    [inputs |-> deepcopy(class.inputs), outputs |-> deepcopy(class.outputs)]

Got(name, ret, exc) == [name |-> name, ret |-> ret, exc |-> exc]

\* self.<name> that hands out the input when the name is in both dicts.
getattr_inputs_first(self, name) ==
    IF name \in DOMAIN self.inputs THEN Got(name, self.inputs[name], NoException)
    ELSE IF name \in DOMAIN self.outputs THEN Got(name, self.outputs[name], NoException)
    ELSE Got(name, <<>>, "AttributeError")

\* self.<name> for a name that is no attribute of the object or its class:
\* the parameter of that name in self.inputs or self.outputs; a name in both
\* and a name in neither is an AttributeError.
getattr(self, name) ==
    IF name \in DOMAIN self.inputs /\ name \in DOMAIN self.outputs
    THEN Got(name, <<>>, "AttributeError")
    ELSE IF name \in DOMAIN self.inputs
    THEN Got(name, self.inputs[name], NoException)
    ELSE IF name \in DOMAIN self.outputs
    THEN Got(name, self.outputs[name], NoException)
    ELSE Got(name, <<>>, "AttributeError")

\* A script declares an experiment class over the parameter names.
InitAttr ==
    /\ InitWorld /\ InitCalls /\ NoExperiments /\ NoRun /\ NoMerge /\ NoThreads
    /\ \E ins \in SUBSET ParameterNames, outs \in SUBSET ParameterNames :
           simple = [pc |-> "class", class |-> ExperimentClass(ins, outs),
                     self |-> <<>>, got |-> <<>>]

AttrFrame ==
    UNCHANGED <<regVars, callVars, identVars, objVars, runVars, mergeVars, raceVars>>

\* test.py line 26: experiment = SimpleExperiment()
Construct ==
    /\ simple.pc = "class"
    /\ simple' = [simple EXCEPT !.pc = "object", !.self = Experiment_init(simple.class)]
    /\ AttrFrame

\* test.py line 27 and experiment.py line 199: execute() calls self.run().
EnterRun ==
    /\ simple.pc = "object"
    /\ simple' = [simple EXCEPT !.pc = "run"]
    /\ AttrFrame

\* test.py lines 15-22: the run body reads self.<name>.
GetAttr(name) ==
    /\ simple.pc = "run"
    /\ simple' = [simple EXCEPT !.got = getattr(simple.self, name)]
    /\ AttrFrame

\* run() returns.
LeaveRun ==
    /\ simple.pc = "run"
    /\ simple' = [simple EXCEPT !.pc = "done", !.got = <<>>]
    /\ AttrFrame

NextAttr ==
    \/ Construct
    \/ EnterRun
    \/ \E name \in AttributeNames : GetAttr(name)
    \/ LeaveRun

SpecAttr == InitAttr /\ [][NextAttr]_vars

----------------------------------------------------------------------------
(* SpecRace: two runs in one process call __connect and __disconnect of one
   path (database.py lines 66-85) from two threads; a thread may be
   suspended between any two statements. *)

MaxRounds == 2    \* SpecRace: connect/disconnect pairs of one thread

Threads == {1, 2}
RacePath == "/x.db"

\* A thread between two calls: held is the handle its last __connect
\* returned and that it has not given back, 0 when it holds none.
Rest(held, rounds, exc) ==
    [pc |-> "rest", db |-> 0, count |-> 0, held |-> held, rounds |-> rounds,
     exc |-> exc]

InitRace ==
    /\ InitWorld /\ InitCalls /\ NoExperiments /\ NoRun /\ NoMerge /\ NoSimple
    /\ threads = [t \in Threads |-> Rest(0, 0, NoException)]

RaceFrame == UNCHANGED <<callVars, identVars, runVars, mergeVars, attrVars>>

\* The thread t is at statement pc and has not failed.
At(t, pc) == threads[t].pc = pc /\ threads[t].exc = NoException

\* The exception exc leaves the call and ends the thread.
Raise(t, exc) == threads' = [threads EXCEPT ![t].pc = "rest", ![t].exc = exc]

\* A run calls __connect(path).
\* Line 69: if path in Database_SQLite.database_connections
Connect69(t) ==
    /\ At(t, "rest")
    /\ threads[t].held = 0
    /\ threads[t].rounds < MaxRounds
    /\ threads' = [threads EXCEPT ![t].rounds = @ + 1, ![t].pc =
                       IF RacePath \in DOMAIN database_connections THEN "c70" ELSE "c73"]
    /\ UNCHANGED <<regVars, objVars>>
    /\ RaceFrame

\* Line 70: (db, count) = Database_SQLite.database_connections[path]
Connect70(t) ==
    /\ At(t, "c70")
    /\ IF RacePath \in DOMAIN database_connections
       THEN threads' = [threads EXCEPT ![t].pc = "c71",
                                       ![t].db = database_connections[RacePath].db,
                                       ![t].count = database_connections[RacePath].count]
       ELSE Raise(t, "KeyError")
    /\ UNCHANGED <<regVars, objVars>>
    /\ RaceFrame

\* Lines 71-72: database_connections[path] = (db, count + 1); return db
Connect71(t) ==
    /\ At(t, "c71")
    /\ database_connections' =
           (RacePath :> [db |-> threads[t].db, count |-> threads[t].count + 1])
           @@ database_connections
    /\ threads' = [threads EXCEPT ![t] = Rest(threads[t].db, @.rounds, NoException)]
    /\ UNCHANGED <<handles, store, objVars>>
    /\ RaceFrame

\* Line 73: conn = sqlite3.connect(path)
Connect73(t) ==
    /\ At(t, "c73")
    /\ \E c \in {sqlite3_connect(World, RacePath)} :
           /\ SetWorld(c.w)
           /\ threads' = [threads EXCEPT ![t].pc = "c74", ![t].db = c.ret]
    /\ RaceFrame

\* Lines 74-75: database_connections[path] = (conn, 1); return conn
Connect74(t) ==
    /\ At(t, "c74")
    /\ database_connections' =
           (RacePath :> [db |-> threads[t].db, count |-> 1]) @@ database_connections
    /\ threads' = [threads EXCEPT ![t] = Rest(threads[t].db, @.rounds, NoException)]
    /\ UNCHANGED <<handles, store, objVars>>
    /\ RaceFrame

\* A run calls __disconnect(path) for the connection it holds.
\* Line 79: (db, count) = Database_SQLite.database_connections[path]
Disconnect79(t) ==
    /\ At(t, "rest")
    /\ threads[t].held # 0
    /\ IF RacePath \in DOMAIN database_connections
       THEN threads' = [threads EXCEPT ![t].pc = "d80",
                                       ![t].db = database_connections[RacePath].db,
                                       ![t].count = database_connections[RacePath].count]
       ELSE Raise(t, "KeyError")
    /\ UNCHANGED <<regVars, objVars>>
    /\ RaceFrame

\* Line 80: db.commit()
Disconnect80(t) ==
    /\ At(t, "d80")
    /\ \E c \in {db_commit(World, threads[t].db)} :
           /\ SetWorld(c.w)
           /\ IF c.exc # NoException THEN Raise(t, c.exc)
              ELSE threads' = [threads EXCEPT ![t].pc =
                                   IF threads[t].count = 1 THEN "d82" ELSE "d85"]
    /\ RaceFrame

\* Lines 81-82: if count == 1: db.close()
Disconnect82(t) ==
    /\ At(t, "d82")
    /\ \E c \in {db_close(World, threads[t].db)} : SetWorld(c.w)
    /\ threads' = [threads EXCEPT ![t].pc = "d83"]
    /\ RaceFrame

\* Lines 83-84: del Database_SQLite.database_connections[path]; return
Disconnect83(t) ==
    /\ At(t, "d83")
    /\ IF RacePath \in DOMAIN database_connections
       THEN /\ database_connections' =
                   [q \in DOMAIN database_connections \ {RacePath} |->
                       database_connections[q]]
            /\ threads' = [threads EXCEPT ![t] = Rest(0, @.rounds, NoException)]
       ELSE /\ Raise(t, "KeyError")
            /\ UNCHANGED database_connections
    /\ UNCHANGED <<handles, store, objVars>>
    /\ RaceFrame

\* Line 85: database_connections[path] = (db, count - 1)
Disconnect85(t) ==
    /\ At(t, "d85")
    /\ database_connections' =
           (RacePath :> [db |-> threads[t].db, count |-> threads[t].count - 1])
           @@ database_connections
    /\ threads' = [threads EXCEPT ![t] = Rest(0, @.rounds, NoException)]
    /\ UNCHANGED <<handles, store, objVars>>
    /\ RaceFrame

NextRace ==
    \E t \in Threads :
        \/ Connect69(t)
        \/ Connect70(t)
        \/ Connect71(t)
        \/ Connect73(t)
        \/ Connect74(t)
        \/ Disconnect79(t)
        \/ Disconnect80(t)
        \/ Disconnect82(t)
        \/ Disconnect83(t)
        \/ Disconnect85(t)

SpecRace == InitRace /\ [][NextRace]_vars

----------------------------------------------------------------------------
(* Claims on the connection registry, checked under SpecReg *)

ConnectStep(p) == calls'[p].c = calls[p].c + 1
DisconnectStep(p) == calls'[p].d = calls[p].d + 1

OpenHandles(p) == {h \in DOMAIN handles : handles[h].path = p /\ ~handles[h].closed}

\* C1: as long as p was never disconnected more often than connected, the
\* count of an entry for p is at least 1 and is the number of connects minus
\* the number of disconnects, and p has no entry once the two are equal.
C1_RefcountBalanced ==
    \A p \in Paths :
        p \notin underflow =>
            /\ p \in DOMAIN database_connections =>
                    /\ database_connections[p].count >= 1
                    /\ database_connections[p].count = calls[p].c - calls[p].d
            /\ calls[p].c = calls[p].d => p \notin DOMAIN database_connections

C1_Witness ==
    \E p \in Paths :
        /\ calls[p].c = 2 /\ calls[p].d = 2
        /\ p \notin underflow
        /\ p \notin DOMAIN database_connections

C2_Inv ==
    /\ \A p \in Paths : Cardinality(OpenHandles(p)) <= 1
    /\ \A p \in DOMAIN database_connections :
           /\ database_connections[p].db \in DOMAIN handles
           /\ ~handles[database_connections[p].db].closed
           /\ handles[database_connections[p].db].path = p

C2_Step ==
    /\ \A p \in Paths :
           ConnectStep(p) =>
               /\ IF p \in DOMAIN database_connections
                  THEN /\ last'.ret = database_connections[p].db
                       /\ database_connections'[p] =
                              [db |-> database_connections[p].db,
                               count |-> database_connections[p].count + 1]
                       /\ handles' = handles
                  ELSE /\ Len(handles') = Len(handles) + 1
                       /\ last'.ret = Len(handles')
                       /\ database_connections'[p] = [db |-> last'.ret, count |-> 1]
               /\ ~handles'[last'.ret].closed
               /\ handles'[last'.ret].path = p
    /\ Len(handles') > Len(handles) =>
           \E p \in Paths : ConnectStep(p) /\ p \notin DOMAIN database_connections

\* C2: a path never has two open connections and the registry never holds a
\* closed one; connect on a path with an entry returns the entry's connection
\* and raises its count by one, and only connect on a path without an entry
\* opens a connection, entered with count 1.
C2_OneLiveHandle == []C2_Inv /\ [][C2_Step]_vars

C2_Witness ==
    \E p \in Paths :
        /\ calls[p].c = 2
        /\ last.op = "connect" /\ last.path = p
        /\ p \in DOMAIN database_connections
        /\ database_connections[p].count = 2
        /\ OpenHandles(p) = {database_connections[p].db}

C3_Step ==
    /\ \A p \in DOMAIN database_connections :
           DisconnectStep(p) =>
               LET h == database_connections[p].db
                   n == database_connections[p].count
               IN  /\ store'[p].committed = store[p].tables
                   /\ store'[p].tables = store[p].tables
                   /\ (n = 1) <=> handles'[h].closed
                   /\ (n = 1) <=> p \notin DOMAIN database_connections'
                   /\ n > 1 => database_connections'[p] = [db |-> h, count |-> n - 1]
    /\ \A h \in DOMAIN handles :
           ~handles[h].closed /\ handles'[h].closed =>
               \E p \in DOMAIN database_connections :
                   /\ DisconnectStep(p)
                   /\ database_connections[p] = [db |-> h, count |-> 1]

\* C3: a disconnect of a path with an entry makes the pending writes of its
\* connection durable; it closes the connection and drops the entry exactly
\* when the count before the call is 1, and nothing else closes a connection.
C3_CommitAndCloseAtLast == [][C3_Step]_vars

\* Two holders wrote through one connection; the second disconnect closed it
\* with the row committed.
C3_Witness ==
    \E p \in Paths :
        /\ calls[p].c = 2 /\ calls[p].d = 2 /\ p \notin underflow
        /\ last.op = "disconnect" /\ last.path = p /\ last.exc = NoException
        /\ p \in DOMAIN store
        /\ "metadata" \in DOMAIN store[p].committed
        /\ store[p].committed["metadata"].rows # {}
        /\ OpenHandles(p) = {}

\* A disconnect of a path without an entry raises, and changes neither the
\* registry nor a connection nor a store.
C21_Step ==
    \A p \in Paths :
        DisconnectStep(p) /\ p \notin DOMAIN database_connections =>
            /\ last'.exc = "KeyError"
            /\ UNCHANGED regVars

\* C21: disconnect(p) for a path that has no registry entry fails with the
\* lookup error and leaves the registry as it is, and the registry never has
\* an entry with a count below 1.
C21_DisconnectWithoutEntryFails ==
    /\ [](\A p \in DOMAIN database_connections : database_connections[p].count >= 1)
    /\ [][C21_Step]_vars

\* A path was disconnected without an entry, after it had been connected
\* and released.
C21_Witness ==
    /\ last.op = "disconnect"
    /\ last.exc = "KeyError"
    /\ last.path \in underflow
    /\ calls[last.path].c = 1
    /\ calls[last.path].d = 2

----------------------------------------------------------------------------
(* Claims on the identifier, checked under SpecIdent *)

\* The key/value pairs the inputs of experiment e contribute.
Snapshot(e) == {exps[e].inputs[i] : i \in DOMAIN exps[e].inputs}

Hashed(e) == exps[e].pc \in {"hashed", "done"}

C5_Inv ==
    \A e1, e2 \in Experiments :
        Hashed(e1) /\ Hashed(e2) /\ Snapshot(e1) = Snapshot(e2)
            => exps[e1].instance = exps[e2].instance

C5_Step ==
    \A e \in Experiments : Hashed(e) => exps'[e].instance = exps[e].instance

\* C5: two experiments of one class (same title, same version) whose inputs
\* contribute the same key/value pairs, in whatever order and at whatever
\* time, get the same identifier, and writing the date, experiment-name and
\* experiment-version fields afterwards leaves the identifier as it was.
C5_IdentifierPure == []C5_Inv /\ [][C5_Step]_vars

\* Both ran: the same two pairs in opposite orders, written at different dates.
C5_Witness ==
    /\ exps[1].pc = "done" /\ exps[2].pc = "done"
    /\ Len(exps[1].inputs) = 2
    /\ exps[1].inputs # exps[2].inputs
    /\ Snapshot(1) = Snapshot(2)
    /\ DictGet(exps[1].file, "date") # DictGet(exps[2].file, "date")
    /\ exps[1].instance = exps[2].instance

\* C6: two experiments of one class whose snapshots differ in a key or in a
\* value get different identifiers.
C6_DistinctSnapshotsDistinctIds ==
    \A e1, e2 \in Experiments :
        Hashed(e1) /\ Hashed(e2) /\ Snapshot(e1) # Snapshot(e2)
            => exps[e1].instance # exps[e2].instance

----------------------------------------------------------------------------
(* Claims on execute(), Table and TableDict, checked under Spec *)

\* Every row of every table of every store file, as <<path, table, row>>.
AllRows(st) ==
    UNION {UNION {{<<p, t, r>> : r \in st[p].tables[t].rows} :
                     t \in DOMAIN st[p].tables} : p \in DOMAIN st}

Stage(i) == run.log[i][1]

Logged(stage, i) == {run.log[j][2] : j \in {x \in 1..(i - 1) : Stage(x) = stage}}

C4_Rank == [inputs |-> 1, identify |-> 2, allocate |-> 3, setup |-> 4, run |-> 5,
            teardown |-> 6]

InputSet == {Inputs[i] : i \in DOMAIN Inputs}

\* What has to be over before a stage may begin (i is the place in the log,
\* Len(log) + 1 for the stage the call is in now).
C4_Before(stage, i) ==
    /\ C4_Rank[stage] >= 2 => Logged("inputs", i) = InputSet
    /\ C4_Rank[stage] >= 3 => Logged("identify", i) # {}
    /\ C4_Rank[stage] >= 4 => Logged("allocate", i) # {}
    /\ C4_Rank[stage] >= 5 => Logged("setup", i) = Outputs
    /\ C4_Rank[stage] >= 6 => Logged("run", i) # {}

\* C4: in every call of execute() the stages come in one order: all inputs
\* are resolved, then the identifier is computed, then the directory is
\* allocated, then every output is set up, then the body runs, then every
\* output is torn down; so no output is set up before the identifier is known
\* (no row is stamped with an empty identifier) and none is torn down before
\* the body has returned.
C4_StageOrder ==
    /\ \A i, j \in DOMAIN run.log :
           i < j => /\ C4_Rank[Stage(i)] <= C4_Rank[Stage(j)]
                    /\ run.log[i] # run.log[j]
    /\ \A i \in DOMAIN run.log : C4_Before(Stage(i), i)
    /\ run.pc # "idle" => C4_Before(run.pc, Len(run.log) + 1)
    /\ \A x \in AllRows(store) : x[3]["experiment"] # ""

C4_Witness ==
    /\ run.pc = "teardown"
    /\ run.idx = Len(run.order)
    /\ Len(run.log) = Len(Inputs) + 3 + 2 * Cardinality(Outputs)
    /\ AllRows(store) # {}

\* The class whose instance the input experiment R stands for.
ReadFrom(o) ==
    /\ params["R"]["td"].phase = "input"
    /\ experiments["R"] = experiments[o]
    /\ params[o]["td"].phase = "torn"

TextOnly(d) == \A k \in DOMAIN d : d[k].tag = "str"

\* C7 (as amended): for every dict D whose keys and values are text strings,
\* a TableDict that was filled with D as an output of instance X and torn
\* down is read back as exactly D by a TableDict set up as input on the same
\* store and table for instance X.
C7_TextRoundTrip ==
    \A o \in Classes : ReadFrom(o) /\ TextOnly(dicts[o]) => dicts["R"] = dicts[o]

C7_Witness ==
    \E o \in Classes :
        /\ ReadFrom(o)
        /\ TextOnly(dicts[o])
        /\ dicts[o] # <<>>
        /\ dicts["R"] = dicts[o]

\* C7 as stated: for every dict D, the TableDict set up as input contains
\* exactly D, no key missing, no extra key, every value equal.
C7_RoundTrip ==
    \A o \in Classes : ReadFrom(o) => dicts["R"] = dicts[o]

\* The output teardown of the TableDict of the running experiment is next.
TdTeardown ==
    /\ run.pc = "teardown"
    /\ run.idx < Len(run.order)
    /\ run.order[run.idx + 1] = "td"

OtherRows(st, id) == {x \in AllRows(st) : x[3]["experiment"] # id}

C8_Step ==
    /\ \A o \in Classes :
           params[o]["td"].phase = "output" /\ dicts'[o] # dicts[o] => store' = store
    /\ TdTeardown =>
           LET o == run.cur
               id == experiments[o].instance
               name == table_name(experiments[o].title, "td")
               p == DatabasePath["td"]
           IN  /\ params'[o]["td"].phase = "torn"
               /\ store'[p].tables[name].rows =
                      {[experiment |-> id, key |-> k,
                        value |-> TextAffinity(dicts[o][k])] : k \in DOMAIN dicts[o]}
               /\ store'[p].committed = store'[p].tables
               /\ OtherRows(store', id) = OtherRows(store, id)

\* C8: a TableDict used as output is flush-on-close: between its output
\* setup and its output teardown a mutation of the dict changes no row of the
\* store, and its teardown clears and rewrites the rows of the running
\* instance so that they are the final dict, one row per key, and leaves the
\* rows of every other identifier as they were.
C8_FlushOnClose == [][C8_Step]_vars

C8_Witness ==
    \E o \in Classes :
        /\ params[o]["td"].phase = "torn"
        /\ dicts[o] # <<>>
        /\ OtherRows(store, experiments[o].instance) # {}
        /\ \E x \in AllRows(store) :
               /\ x[2] = table_name(experiments[o].title, "td")
               /\ x[3]["experiment"] = experiments[o].instance

\* The spec's IntegrityError is the assertion of Table.insert that fails
\* (lines 233 and 237).
IntegrityError == "AssertionError"

\* C9: Table.insert succeeds only when the keys of the row together with the
\* experiment column are exactly the declared columns; with a declared
\* column missing or an undeclared one added it fails with the integrity
\* error and writes no row.
C9_KeySetChecked ==
    last.op = "insert" =>
        /\ last.exc = NoException => last.keys \cup {"experiment"} = FieldNames("t")
        /\ last.keys \cup {"experiment"} # FieldNames("t") =>
               last.exc = IntegrityError /\ ~last.wrote

C9_Witness ==
    /\ last.op = "insert"
    /\ last.phase = "output"
    /\ last.keys \cup {"experiment"} # FieldNames("t")
    /\ last.exc = IntegrityError
    /\ ~last.wrote

\* C10: Table.insert writes a row only in output mode; on a table that was
\* set up as input, was never set up or has been torn down it fails with the
\* integrity error and writes nothing.
C10_InsertOnlyInOutputMode ==
    last.op = "insert" /\ last.phase \in {"input", "never", "torn"} =>
        last.exc = IntegrityError /\ ~last.wrote

\* The rows of the metadata table of the store st that are stamped id.
MetadataRowsOf(st, id) ==
    IF "metadata" \in DOMAIN st.tables
    THEN {r \in st.tables["metadata"].rows : r["experiment"] = id}
    ELSE {}

\* The call of execute() in progress has set up an output.
HasSetUpOutput ==
    /\ run.pc \in {"setup", "run", "teardown"}
    /\ Logged("setup", Len(run.log) + 1) # {}

\* C16: after the output setup of a parameter the metadata table of its store
\* holds exactly one row for the instance that set the output up, also when
\* the table existed before this setup.
C16_OneMetadataRowPerInstance ==
    HasSetUpOutput =>
        Cardinality(MetadataRowsOf(store["/x.db"], experiments[run.cur].instance)) = 1

\* The output setup of the next output is about to be called.
SetupDue ==
    /\ run.pc = "setup"
    /\ run.idx < Len(run.order)
    /\ CanConnect(run.order[run.idx + 1])

\* C17: in the output setup of a Database the creation of the metadata table
\* on a store that has it is passed over, and no other storage error is: when
\* the setup of the Database returns, the store has the metadata table; and
\* the output setup of a Table whose table is in the store already fails with
\* the storage error.
C17_OnlyTableExistsTolerated ==
    SetupDue =>
        LET o == run.cur
            n == run.order[run.idx + 1]
            id == experiments[o].instance
            name == table_name(experiments[o].title, n)
            has(t) == "/x.db" \in DOMAIN store /\ t \in DOMAIN store["/x.db"].tables
            d == Database_before_experiment_run(World, o, n, "output", "/x.db", id)
            t == before_experiment_run(World, o, n, "output", id, id,
                                       experiments[o].title)
        IN  /\ has("metadata") => d.exc = NoException
            /\ d.exc = NoException => "metadata" \in DOMAIN d.w.store["/x.db"].tables
            /\ has(name) => t.exc = "OperationalError"

\* C18: the allocation of the result directory is destructive and
\* idempotent: when execute() has allocated the directory of its identifier,
\* the directory exists and holds the metadata file of this call and nothing
\* else, whatever an earlier allocation and run had written under it.
C18_AllocationPurges ==
    run.pc = StageAfter("allocate") /\ run.idx = 0 =>
        /\ experiments[run.cur].instance \in DOMAIN dirs
        /\ dirs[experiments[run.cur].instance] = {File("metadata", run.count)}

\* The second call allocates the directory in which the first call had left
\* its metadata file and a file of its run body.
C18_Witness ==
    /\ run.pc = StageAfter("allocate") /\ run.idx = 0
    /\ run.count = 2
    /\ run.purged = {File("metadata", 1), File("out", 1)}
    /\ dirs[experiments[run.cur].instance] = {File("metadata", 2)}

\* The call of execute() in progress ends by an exception of stage.
Fails(stage) == run.pc = stage /\ run'.pc = "idle"

\* C19: when the resolution of an input or the creation of the result
\* directory fails, execute() ends: no output was set up and the run body did
\* not run in this call, the failing step leaves the stores, the connections
\* and the parameters as they are, and when an input fails no directory was
\* allocated, created or purged.
C19_Step ==
    /\ Fails("inputs") \/ Fails("allocate") =>
           /\ Logged("setup", Len(run.log) + 1) = {}
           /\ Logged("run", Len(run.log) + 1) = {}
           /\ UNCHANGED <<regVars, objVars>>
    /\ Fails("inputs") =>
           /\ Logged("allocate", Len(run.log) + 1) = {}
           /\ UNCHANGED dirs

C19_EarlyFailureTouchesNoOutput == [][C19_Step]_vars

\* Two calls have ended early, one of them because its directory could not
\* be created: no connection was ever made and the directory does not exist.
C19_Witness ==
    /\ run.pc = "idle"
    /\ run.count = 2
    /\ experiments["A"].instance # ""
    /\ experiments["A"].instance \notin DOMAIN dirs
    /\ database_connections = <<>>
    /\ handles = <<>>

\* C20: when the run body raises, the connections of the outputs are
\* released: the count of the store's entry goes down by one for every output,
\* the entry is gone when no other holder is left, the writes that were
\* pending are committed, and the outputs hold no connection.
C20_Step ==
    Fails("run") =>
        /\ \A n \in Outputs : params'[run.cur][n].conn = 0
        /\ IF database_connections["/x.db"].count = Cardinality(Outputs)
           THEN "/x.db" \notin DOMAIN database_connections'
           ELSE database_connections'["/x.db"].count =
                    database_connections["/x.db"].count - Cardinality(Outputs)
        /\ store'["/x.db"].committed = store["/x.db"].tables

C20_ReleasedWhenRunRaises == [][C20_Step]_vars

\* The identifiers of the calls of execute() so far.
InstanceIds == {experiments[o].instance : o \in Classes} \ {""}

\* A call of Table.insert in a run body that writes adds rows, and they
\* carry the identifier of the experiment that is running.
C23_Step ==
    last'.op = "insert" /\ store' # store /\ run.pc = "run" =>
        /\ AllRows(store') \ AllRows(store) # {}
        /\ \A x \in AllRows(store') \ AllRows(store) :
               x[3]["experiment"] = experiments[run.cur].instance

\* C23: every row that Table.insert writes has in its experiment column the
\* identifier of the experiment that is running at the time of the insert,
\* also when the caller gives a value for 'experiment', and every row of
\* every store carries the identifier of a run.
C23_RowsStamped ==
    /\ [](\A x \in AllRows(store) : x[3]["experiment"] \in InstanceIds)
    /\ [][C23_Step]_vars

\* A run body has inserted a row for which it gave its own 'experiment'.
C23_Witness ==
    /\ last.op = "insert"
    /\ last.exc = NoException
    /\ last.wrote
    /\ "experiment" \in last.keys
    /\ run.pc = "run"
    /\ \E x \in AllRows(store) :
           /\ x[2] = table_name(experiments[run.cur].title, "t")
           /\ x[3]["experiment"] = experiments[run.cur].instance

\* C25: output teardown marks a store file read-only only when the registry
\* has no entry left for its path, and no step of a teardown changes the
\* tables of a store that is already marked read-only.
C25_Step ==
    \A p \in DOMAIN store \cap DOMAIN store' :
        /\ store[p].mode = "rw" /\ store'[p].mode = "ro" =>
               p \notin DOMAIN database_connections'
        /\ run.pc = "teardown" /\ store[p].mode = "ro" =>
               store'[p].tables = store[p].tables

C25_ReadOnlyAfterLastRelease == [][C25_Step]_vars

----------------------------------------------------------------------------
(* Claims on the merge script, checked under SpecMerge *)

\* The sources of the command line that have a table T, and the rows of T
\* in them.
SourcesWith(T) == {p \in Range(merger.argv) : T \in TableNames(disk[p])}
UnionOf(T) == UNION {BagToSet(disk[p].data[T]) : p \in SourcesWith(T)}

\* The creation statement of table T in the file db.
SqlOf(db, T) == db.master[CHOOSE i \in DOMAIN db.master : db.master[i].name = T].sql

\* C11: after a successful merge every table T of the target that some
\* source has contains exactly the set union of the rows of T in the sources
\* that have T: every such row once, and no other row.
C11_TableIsSetUnion ==
    merger.pc = "done" =>
        \A T \in TableNames(disk[TargetPath]) :
            SourcesWith(T) # {} =>
                disk[TargetPath].data[T] = SetToBag(UnionOf(T))

\* /a.db and /b.db are merged: T has the three rows, each once.
C11_Witness ==
    /\ merger.pc = "done"
    /\ merger.argv = <<"/a.db", "/b.db">>
    /\ disk[TargetPath].data["T"] =
           SetToBag({<<"x", "k1", "v1">>, <<"x", "k2", "v2">>, <<"x", "k3", "v3">>})
    /\ BagCardinality(disk[TargetPath].data["T"]) = 3

\* Two sources of the command line declare one table name with different
\* creation statements.
Conflicting ==
    \E p \in Range(merger.argv) \cap DOMAIN disk :
    \E q \in Range(merger.argv) \cap DOMAIN disk :
    \E T \in TableNames(disk[p]) \cap TableNames(disk[q]) :
        SqlOf(disk[p], T) # SqlOf(disk[q], T)

\* C12 (as amended): when two sources declare one table name T with different
\* creation statements, the merge does not get past the catalogue: it ends
\* with the schema-conflict exit, and it has then created no table T and
\* inserted no row of T: the target has T exactly when it had T before the
\* merge, with the creation statement and the rows it had.
C12_ConflictTouchesNoTable ==
    /\ merger.pc \in {"created", "done"} => ~Conflicting
    /\ merger.exit = "SystemExit" =>
           /\ Conflicting
           /\ merger.name \in TableNames(disk[TargetPath])
                  <=> merger.name \in TableNames(merger.before)
           /\ merger.name \in TableNames(merger.before) =>
                  /\ SqlOf(disk[TargetPath], merger.name)
                         = SqlOf(merger.before, merger.name)
                  /\ disk[TargetPath].data[merger.name]
                         = merger.before.data[merger.name]

\* A merge of /a.db and /c.db ends on the conflict on T in a target that an
\* earlier merge had filled with T.
C12_Witness ==
    /\ merger.exit = "SystemExit"
    /\ merger.name = "T"
    /\ "T" \in TableNames(merger.before)
    /\ BagCardinality(disk[TargetPath].data["T"]) > 0

\* C12 as stated: when two sources declare one table name with different
\* creation statements, the merge ends with the schema-conflict exit, and the
\* target then has no table of that name, whatever it contained before.
C12_ConflictLeavesNoTable ==
    merger.exit = "SystemExit" => merger.name \notin TableNames(disk[TargetPath])

\* C13: when a source path of the command line does not exist, the merge
\* stops before any source has been attached: no ATTACH has succeeded when
\* the assertion fails, wherever the missing path stands in the list.
C13_NoAttachBeforeStop ==
    merger.exit = "AssertionError" => merger.source_paths = <<>>

\* The tables of the sources whose columns are exactly experiment, key, value.
KeyValueTables ==
    {T \in UNION {TableNames(disk[p]) : p \in Range(merger.argv)} :
        \E p \in SourcesWith(T) :
            Headers(SqlOf(disk[p], T)) = <<"experiment", "key", "value">>}

\* C14: after a successful merge the target has every table name found in a
\* source and the table TableDict, and the rows of TableDict are exactly the
\* rows of the key/value tables of the sources, each once, whatever the
\* target held before and however often the merge was run on it.
C14_AuxiliaryIsUnion ==
    merger.pc = "done" =>
        /\ \A p \in Range(merger.argv) :
               TableNames(disk[p]) \subseteq TableNames(disk[TargetPath])
        /\ "TableDict" \in TableNames(disk[TargetPath])
        /\ disk[TargetPath].data["TableDict"] =
               SetToBag(UNION {UnionOf(T) : T \in KeyValueTables})

\* C15 (as amended): the merge finds a schema conflict before it creates or
\* fills any table: when a table hits a schema conflict, no table of the
\* invocation has been created, filled or committed, and the target holds
\* exactly what it held before the invocation.
C15_ConflictBeforeAnyTable ==
    merger.exit = "SystemExit" => disk[TargetPath] = merger.before

\* The conflict on T is found after U was catalogued, in the first run on a
\* new target: the target has no table.
C15_Witness ==
    /\ merger.exit = "SystemExit"
    /\ merger.name = "T"
    /\ "U" \in DOMAIN merger.tables
    /\ merger.count = 1
    /\ TableNames(disk[TargetPath]) = {}

\* C15 as stated: when a later table hits a schema conflict, the tables
\* processed earlier in the same invocation are committed in the target,
\* created and filled with the rows of their sources.
C15_EarlierTablesCommitted ==
    merger.exit = "SystemExit" =>
        \A T \in DOMAIN merger.tables \ {merger.name} :
            /\ T \in TableNames(disk[TargetPath])
            /\ disk[TargetPath].data[T] =
                   SetToBag(select_rows(disk, merger.source_paths, T,
                                        merger.tables[T].databases))

----------------------------------------------------------------------------
(* Claims on attribute access, checked under SpecAttr *)

----------------------------------------------------------------------------
(* Claims on the registry under threads, checked under SpecRace *)

\* The threads that hold a connection, and whether no thread is in a call.
Holders == {t \in Threads : threads[t].held # 0}
Quiet == \A t \in Threads : threads[t].pc = "rest"

\* C24: when two runs interleave their connect and disconnect calls of one
\* path at statement granularity, the path never has two live handles, no
\* count update is lost (between calls the count of the entry is the number
\* of runs that hold the connection, and there is no entry when none holds
\* it), no run holds a handle that was closed, and no call fails.
C24_RegistrySerialized ==
    /\ Cardinality(OpenHandles(RacePath)) <= 1
    /\ \A t \in Threads : threads[t].exc = NoException
    /\ \A t \in Holders : ~handles[threads[t].held].closed
    /\ Quiet =>
           IF Holders = {}
           THEN RacePath \notin DOMAIN database_connections
           ELSE /\ RacePath \in DOMAIN database_connections
                /\ database_connections[RacePath].count = Cardinality(Holders)

====
